---- MODULE Spec2Model ----
(***************************************************************************)
(* Indicator computation and signal generation of the trading dashboard    *)
(* (src/dashboard.py) and of the command line robot (src/main.py).         *)
(*                                                                         *)
(* Numbers.  The program computes on IEEE doubles held in pandas columns.  *)
(* The model keeps every finite value as an exact fraction n/d (d > 0) and *)
(* keeps the three special values the program's divisions can produce:     *)
(* NaN, +infinity and -infinity.  Rounding of finite doubles is not        *)
(* modelled; closes are whole numbers of price ticks, for which the sums   *)
(* the program forms are exact.  Zero carries no sign: the only place a    *)
(* negative zero can arise is the rolling mean of the loss column, where   *)
(* gain / -0.0 = -inf leads to the same RSI of 100 as gain / 0.0 = +inf.   *)
(*                                                                         *)
(* Frames.  A pandas DataFrame is a record: its Close column, the set of   *)
(* indicator columns it carries and one sequence per indicator column.     *)
(* Open, High, Low and Volume are never read or written by the functions   *)
(* modelled here and are left out.  Python's None is the frame NoneFrame.  *)
(***************************************************************************)
EXTENDS Integers, Sequences, FiniteSets, TLC

VARIABLES
    series,   \* the DataFrame object the data source returned (None: NoneFrame)
    given,    \* that object's contents as the data source returned it
    data,     \* the variable `data` of main(): what the last call returned
    signal,   \* the (kind, reason, confidence) triple generate_signal returned
    error,    \* the exception generate_signal raised, "" when it returned
    reads,    \* the columns generate_signal read with .iloc[-1]
    sma,      \* the column simple_moving_average returned
    pc        \* what has run so far

vars == <<series, given, data, signal, error, reads, sma, pc>>

-----------------------------------------------------------------------------
(* Bounds of the explored inputs *)

\* longest series, in bars, of the richly varied inputs
MaxLen == 22

\* longest series, in bars, of the long inputs (beyond the 50-bar window)
MaxBars == 51

-----------------------------------------------------------------------------
(* IEEE arithmetic on exact fractions with NaN and the infinities *)

\* A value is <<n, d>>: the fraction n/d when d > 0; with d = 0 it is NaN
\* (n = 0), +infinity (n = 1) or -infinity (n = -1).
RECURSIVE GCD(_, _)
GCD(a, b) == IF b = 0 THEN a ELSE GCD(b, a % b)

\* the fraction n/d (d > 0) in lowest terms
Num(n, d) == <<n \div GCD(IF n < 0 THEN -n ELSE n, d), d \div GCD(IF n < 0 THEN -n ELSE n, d)>>
Int2F(n) == <<n, 1>>
NaN == <<0, 0>>
PInf == <<1, 0>>
NInf == <<-1, 0>>

isna(x) == x[2] = 0 /\ x[1] = 0
IsNum(x) == x[2] > 0
Sign(x) == IF x[1] > 0 THEN 1 ELSE IF x[1] < 0 THEN -1 ELSE 0
Abs(n) == IF n < 0 THEN -n ELSE n

FNeg(a) == IF isna(a) THEN NaN ELSE <<-a[1], a[2]>>

FAdd(a, b) ==
    IF isna(a) \/ isna(b) THEN NaN
    ELSE IF IsNum(a) /\ IsNum(b) THEN Num(a[1] * b[2] + b[1] * a[2], a[2] * b[2])
    ELSE IF IsNum(a) THEN b
    ELSE IF IsNum(b) THEN a
    ELSE IF a[1] = b[1] THEN a ELSE NaN

FSub(a, b) == FAdd(a, FNeg(b))

FMul(a, b) ==
    IF isna(a) \/ isna(b) THEN NaN
    ELSE IF IsNum(a) /\ IsNum(b) THEN Num(a[1] * b[1], a[2] * b[2])
    ELSE IF Sign(a) * Sign(b) > 0 THEN PInf
    ELSE IF Sign(a) * Sign(b) < 0 THEN NInf
    ELSE NaN

\* a / b on numpy doubles: a zero divisor gives an infinity or NaN
FDiv(a, b) ==
    IF isna(a) \/ isna(b) THEN NaN
    ELSE IF IsNum(a) /\ IsNum(b) THEN
        IF b[1] # 0 THEN Num(a[1] * b[2] * Sign(b), a[2] * Abs(b[1]))
        ELSE IF a[1] > 0 THEN PInf
        ELSE IF a[1] < 0 THEN NInf
        ELSE NaN
    ELSE IF IsNum(a) THEN Num(0, 1)
    ELSE IF IsNum(b) THEN (IF Sign(a) * Sign(b) >= 0 THEN PInf ELSE NInf)
    ELSE NaN

\* a < b on doubles: false whenever an operand is NaN
FLt(a, b) ==
    IF isna(a) \/ isna(b) THEN FALSE
    ELSE IF IsNum(a) /\ IsNum(b) THEN a[1] * b[2] < b[1] * a[2]
    ELSE IF IsNum(a) THEN b[1] > 0
    ELSE IF IsNum(b) THEN a[1] < 0
    ELSE a[1] < b[1]

FGt(a, b) == FLt(b, a)

\* Python's builtin min(a, b): b if b < a else a
pymin(a, b) == IF FLt(b, a) THEN b ELSE a

\* format(x, ".1f"): the value rounded to tenths, ties to even; nan and inf
\* are printed as such
fmt1(x) ==
    IF ~IsNum(x) THEN x
    ELSE
        LET q == (10 * Abs(x[1])) \div x[2]
            r == (10 * Abs(x[1])) % x[2]
            t == IF 2 * r < x[2] THEN q
                 ELSE IF 2 * r > x[2] THEN q + 1
                 ELSE IF q % 2 = 0 THEN q ELSE q + 1
        IN  Num(Sign(x) * t, 10)

-----------------------------------------------------------------------------
(* pandas column operations *)

\* A column computed entry by entry: <<F(1), ..., F(n)>>
Column(F(_), n) == [i \in 1 .. n |-> F(i)] \o <<>>

\* Series.rolling(window=w): one pass over the column that adds the newest
\* observation and removes the one leaving the window.  Entry i of the result
\* is <<sum, sum of squares, observations>> of the window ending at i.
RECURSIVE Roll(_, _, _, _)
Roll(xs, w, i, out) ==
    IF i > Len(xs) THEN out
    ELSE
        LET prev == IF i = 1 THEN <<0, 0, 0>> ELSE out[i - 1]
            add  == IF isna(xs[i]) THEN prev
                    ELSE <<prev[1] + xs[i][1], prev[2] + xs[i][1] * xs[i][1], prev[3] + 1>>
            rem  == IF i > w /\ ~isna(xs[i - w])
                    THEN <<add[1] - xs[i - w][1],
                           add[2] - xs[i - w][1] * xs[i - w][1], add[3] - 1>>
                    ELSE add
        IN  Roll(xs, w, i + 1, Append(out, rem))

\* an expanding window: nothing ever leaves it
Rolling_expanding(xs, w) == Roll(xs, Len(xs) + 1, 1, <<>>)

Rolling(xs, w) == Roll(xs, w, 1, <<>>)

\* .rolling(window=w).mean(): a value is produced once the window holds w
\* observations (min_periods = window)
mean_of(r, w) ==
    Column(LAMBDA i : IF r[i][3] >= w THEN Num(r[i][1], r[i][3]) ELSE NaN, Len(r))

RollingMean(xs, w) == mean_of(Rolling(xs, w), w)

\* .rolling(window=w).std(): the sample standard deviation (ddof = 1), kept
\* as its square, the sample variance
var_of(r, w) ==
    Column(LAMBDA i : IF r[i][3] >= w /\ r[i][3] > 1
                      THEN Num(r[i][3] * r[i][2] - r[i][1] * r[i][1],
                               r[i][3] * (r[i][3] - 1))
                      ELSE NaN,
           Len(r))

RollingVar(xs, w) == var_of(Rolling(xs, w), w)

\* data['Close'] as a column of doubles
CloseCol(frame) == Column(LAMBDA i : Int2F(frame.Close[i]), Len(frame.Close))

\* Series.diff(): the first entry has no predecessor and is NaN
diff(xs) ==
    Column(LAMBDA i : IF i = 1 THEN NaN ELSE FSub(xs[i], xs[i - 1]), Len(xs))

\* delta.where(delta > 0, 0): entries where the condition is False, the NaN
\* first entry included, are replaced by 0
where_pos(delta) ==
    Column(LAMBDA i : IF FGt(delta[i], Int2F(0)) THEN delta[i] ELSE Int2F(0), Len(delta))

\* -delta.where(delta < 0, 0)
neg_where_neg(delta) ==
    Column(LAMBDA i : FNeg(IF FLt(delta[i], Int2F(0)) THEN delta[i] ELSE Int2F(0)),
           Len(delta))

\* a division that answers NaN for every zero divisor
rs_of_nan_on_zero(gain, loss) ==
    Column(LAMBDA i : IF loss[i][1] = 0 THEN NaN ELSE FDiv(gain[i], loss[i]), Len(gain))

\* rs = gain / loss, entry by entry
rs_of(gain, loss) == Column(LAMBDA i : FDiv(gain[i], loss[i]), Len(gain))

\* 100 - (100 / rs): the 1 + of the denominator forgotten
rsi_of_without_one(rs) ==
    Column(LAMBDA i : FSub(Int2F(100), FDiv(Int2F(100), rs[i])), Len(rs))

\* 100 - (100 / (1 + rs)), entry by entry
rsi_of(rs) ==
    Column(LAMBDA i : FSub(Int2F(100), FDiv(Int2F(100), FAdd(Int2F(1), rs[i]))), Len(rs))

\* BB_Middle + (bb_std * mult): the band is kept as <<mid, mult, var>>, standing
\* for mid + mult * sqrt(var)
band(mid, var, mult) == Column(LAMBDA i : <<mid[i], mult, var[i]>>, Len(mid))

-----------------------------------------------------------------------------
(* Frames *)

IndicatorColumns == {"SMA_20", "SMA_50", "RSI", "BB_Middle", "BB_Upper", "BB_Lower"}

\* a DataFrame of bars as the data source returns it
RawFrame(closes) ==
    [none |-> FALSE, Close |-> closes, columns |-> {},
     SMA_20 |-> <<>>, SMA_50 |-> <<>>, RSI |-> <<>>,
     BB_Middle |-> <<>>, BB_Upper |-> <<>>, BB_Lower |-> <<>>]

NoneFrame ==
    [none |-> TRUE, Close |-> <<>>, columns |-> {},
     SMA_20 |-> <<>>, SMA_50 |-> <<>>, RSI |-> <<>>,
     BB_Middle |-> <<>>, BB_Upper |-> <<>>, BB_Lower |-> <<>>]

\* len(data)
len(frame) == Len(frame.Close)

\* column.iloc[-1]
last(col) == col[Len(col)]

-----------------------------------------------------------------------------
(* src/main.py *)

simple_moving_average(frame, window) == RollingMean(CloseCol(frame), window)

-----------------------------------------------------------------------------
(* src/dashboard.py: calculate_technical_indicators *)

\* The frame as calculate_technical_indicators leaves it: the six indicator
\* columns are assigned into the frame it was given.
WithIndicators(frame) ==
    LET close == CloseCol(frame)
        delta == diff(close)
        gain  == RollingMean(where_pos(delta), 14)
        loss  == RollingMean(neg_where_neg(delta), 14)
        mid   == RollingMean(close, 20)
        var   == RollingVar(close, 20)
    IN  [frame EXCEPT
            !.columns = IndicatorColumns,
            !.SMA_20 = RollingMean(close, 20),
            !.SMA_50 = RollingMean(close, 50),
            !.RSI = rsi_of(rs_of(gain, loss)),
            !.BB_Middle = mid,
            !.BB_Upper = band(mid, var, 2),
            !.BB_Lower = band(mid, var, -2)]

\* calculate_technical_indicators(data): `arg` is the object passed in, as it
\* is when the call returns, and `ret` the value returned: None, or that same
\* object
calculate_technical_indicators(frame) ==
    IF frame.none \/ len(frame) < 20
    THEN [arg |-> frame, ret |-> NoneFrame]
    ELSE LET enriched == WithIndicators(frame)
         IN  [arg |-> enriched, ret |-> enriched]

-----------------------------------------------------------------------------
(* src/dashboard.py: generate_signal *)

Reason(text, args) == [text |-> text, args |-> args]

Signal(kind, reason, confidence) ==
    [kind |-> kind, reason |-> reason, confidence |-> confidence]

NoSignal == Signal("", Reason("", <<>>), NaN)

Return(sig, rd) == [ret |-> sig, raised |-> "", reads |-> rd]
Raise(exception, rd) == [ret |-> NoSignal, raised |-> exception, reads |-> rd]

\* the length test with a threshold of 10 bars
insufficient_below_10(frame) == frame.none \/ len(frame) < 10

\* if data is None or len(data) < 20
insufficient(frame) == frame.none \/ len(frame) < 20

\* the NaN test on the moving average alone
calculating_sma_only(sma_20, rsi) == isna(sma_20)

\* if pd.isna(sma_20) or pd.isna(rsi)
calculating(sma_20, rsi) == isna(sma_20) \/ isna(rsi)

\* the comparison with >= for >
price_signal_ge(current_price, sma_20) ==
    IF FLt(current_price, sma_20) THEN "SELL" ELSE "BUY"

\* price_signal = "BUY" if current_price > sma_20 else "SELL"
price_signal(current_price, sma_20) ==
    IF FGt(current_price, sma_20) THEN "BUY" ELSE "SELL"

\* division of Python floats: a zero divisor raises ZeroDivisionError
div_raises_python(a, b) == IsNum(b) /\ b[1] = 0

\* whether a / b raises: division of numpy doubles never does
div_raises(a, b) == FALSE

\* min(80, 50 + (current_price - sma_20) / sma_20 * 1000)
buy_confidence(current_price, sma_20) ==
    pymin(Int2F(80),
          FAdd(Int2F(50), FMul(FDiv(FSub(current_price, sma_20), sma_20), Int2F(1000))))

\* min(80, 50 + (sma_20 - current_price) / sma_20 * 1000)
sell_confidence(current_price, sma_20) ==
    pymin(Int2F(80),
          FAdd(Int2F(50), FMul(FDiv(FSub(sma_20, current_price), sma_20), Int2F(1000))))

\* generate_signal(data): the triple returned or the exception raised, and
\* the columns read on the way
generate_signal(frame) ==
    IF insufficient(frame)
    THEN Return(Signal("INSUFFICIENT_DATA", Reason("Not enough data", <<>>), Int2F(0)), {})
    ELSE IF len(frame) = 0 THEN Raise("IndexError", {"Close"})
    ELSE IF "SMA_20" \notin frame.columns THEN Raise("KeyError", {"Close"})
    ELSE IF "RSI" \notin frame.columns THEN Raise("KeyError", {"Close", "SMA_20"})
    ELSE
        LET current_price == Int2F(last(frame.Close))
            sma_20 == last(frame.SMA_20)
            rsi == last(frame.RSI)
            rd == {"Close", "SMA_20", "RSI"}
        IN  IF calculating(sma_20, rsi)
            THEN Return(Signal("NEUTRAL", Reason("Calculating...", <<>>), Int2F(50)), rd)
            ELSE IF price_signal(current_price, sma_20) = "BUY" /\ FLt(rsi, Int2F(70))
            THEN IF div_raises(FSub(current_price, sma_20), sma_20)
                 THEN Raise("ZeroDivisionError", rd)
                 ELSE Return(Signal("BUY",
                                    Reason("Price above SMA20, RSI: ", <<fmt1(rsi)>>),
                                    buy_confidence(current_price, sma_20)), rd)
            ELSE IF price_signal(current_price, sma_20) = "SELL" /\ FGt(rsi, Int2F(30))
            THEN IF div_raises(FSub(sma_20, current_price), sma_20)
                 THEN Raise("ZeroDivisionError", rd)
                 ELSE Return(Signal("SELL",
                                    Reason("Price below SMA20, RSI: ", <<fmt1(rsi)>>),
                                    sell_confidence(current_price, sma_20)), rd)
            ELSE Return(Signal("NEUTRAL",
                               Reason("Mixed signals, RSI: ", <<fmt1(rsi)>>),
                               Int2F(40)), rd)

-----------------------------------------------------------------------------
(* Inputs: the price series the data source may hand over *)

\* The j-th of the n - 1 price changes of a series: a first step, then a
\* steady slope, then the free steps of the tail.
DeltaAt(n, head, slope, tail, j) ==
    IF j > n - 1 - Len(tail) /\ j > 0 THEN tail[j - (n - 1 - Len(tail))]
    ELSE IF j = 1 THEN head
    ELSE slope

RECURSIVE Walk(_, _, _, _, _, _)
Walk(n, head, slope, tail, i, out) ==
    IF i > n THEN out
    ELSE Walk(n, head, slope, tail, i + 1,
              Append(out, out[i - 1] + DeltaAt(n, head, slope, tail, i - 1)))

Closes(n, start, head, slope, tail) ==
    IF n = 0 THEN <<>> ELSE Walk(n, head, slope, tail, 2, <<start>>)

Starts == {0, 100}
Slopes == {-1, 0, 1}
Steps == -3 .. 3
Tails == Steps \X Steps \X Steps

\* series of up to MaxLen bars with every tail of three steps
Inputs ==
    {NoneFrame} \cup
    {RawFrame(Closes(n, s, m, m, t)) :
        n \in 0 .. MaxLen, s \in Starts, m \in Slopes, t \in Tails}

LongHeads == {0, 2}
LongTails == {<<0, 0, 0>>, <<1, -2, 1>>, <<3, -3, -3>>, <<-3, 3, 3>>, <<2, 1, 3>>}

\* series of up to MaxBars bars with a few tails and a free first step
LongInputs ==
    {NoneFrame} \cup
    {RawFrame(Closes(n, s, h, m, t)) :
        n \in 0 .. MaxBars, s \in Starts, h \in LongHeads, m \in Slopes, t \in LongTails}

-----------------------------------------------------------------------------
(* The state machine *)

InitOn(frames) ==
    /\ series \in frames
    /\ given = series
    /\ data = series
    /\ signal = NoSignal
    /\ error = ""
    /\ reads = {}
    /\ sma = [window |-> 0, values |-> <<>>]
    /\ pc = "fetched"

Init == InitOn(Inputs)

InitLong == InitOn(LongInputs)

\* dashboard.py main(): data = calculate_technical_indicators(data)
Calculate ==
    /\ pc = "fetched"
    /\ LET r == calculate_technical_indicators(series)
       IN  /\ series' = r.arg
           /\ data' = r.ret
    /\ pc' = "calculated"
    /\ UNCHANGED <<given, signal, error, reads, sma>>

\* The frames generate_signal is written for: None, a frame too short to
\* need indicators, or a frame that went through
\* calculate_technical_indicators (main() passes only the last kind).
Accepted(frame) ==
    \/ frame.none
    \/ len(frame) < 20
    \/ {"SMA_20", "RSI"} \subseteq frame.columns

\* signal, reason, confidence = generate_signal(data)
Generate ==
    /\ pc \in {"fetched", "calculated"}
    /\ Accepted(data)
    /\ LET r == generate_signal(data)
       IN  /\ signal' = r.ret
           /\ error' = r.raised
           /\ reads' = r.reads
    /\ pc' = "signalled"
    /\ UNCHANGED <<series, given, data, sma>>

\* main.py main(): sma_20 = simple_moving_average(data, 20); the dashboard
\* takes the same rolling mean with windows 20 and 50
MovingAverage ==
    /\ pc = "fetched"
    /\ ~series.none
    /\ \E w \in {20, 50} :
           sma' = [window |-> w, values |-> simple_moving_average(series, w)]
    /\ pc' = "averaged"
    /\ UNCHANGED <<series, given, data, signal, error, reads>>

Next == Calculate \/ Generate \/ MovingAverage

Spec == Init /\ [][Next]_vars

SpecLong == InitLong /\ [][Next]_vars

-----------------------------------------------------------------------------
(* Properties *)

\* the frame went through calculate_technical_indicators
Enriched(frame) == ~frame.none /\ IndicatorColumns \subseteq frame.columns

\* closes[lo] + ... + closes[hi]
RECURSIVE SumCloses(_, _, _)
SumCloses(closes, lo, hi) ==
    IF lo > hi THEN 0 ELSE closes[hi] + SumCloses(closes, lo, hi - 1)

Rise(closes, j) == IF j >= 2 /\ closes[j] > closes[j - 1] THEN closes[j] - closes[j - 1] ELSE 0
Fall(closes, j) == IF j >= 2 /\ closes[j] < closes[j - 1] THEN closes[j - 1] - closes[j] ELSE 0

\* the rises, and the falls, of the 14 bars ending at bar i, summed
RECURSIVE GainSum(_, _, _)
GainSum(closes, i, k) ==
    IF k = 0 \/ i < 1 THEN 0 ELSE Rise(closes, i) + GainSum(closes, i - 1, k - 1)

RECURSIVE LossSum(_, _, _)
LossSum(closes, i, k) ==
    IF k = 0 \/ i < 1 THEN 0 ELSE Fall(closes, i) + LossSum(closes, i - 1, k - 1)

StrictlyIncreasing(closes) == \A j \in 2 .. Len(closes) : closes[j] > closes[j - 1]
StrictlyDecreasing(closes) == \A j \in 2 .. Len(closes) : closes[j] < closes[j - 1]
Constant(closes) == \A j \in 2 .. Len(closes) : closes[j] = closes[j - 1]

\* generate_signal has returned for a frame of at least 20 bars whose SMA_20
\* and RSI are both defined at the latest bar
Decided ==
    /\ pc = "signalled"
    /\ Enriched(data)
    /\ len(data) >= 20
    /\ ~isna(last(data.SMA_20))
    /\ ~isna(last(data.RSI))

\* 20 * close - (sum of the last 20 closes): the sign of close - SMA_20
Deviation == last(data.Close) * last(data.SMA_20)[2] - last(data.SMA_20)[1]

BuyCase == Deviation > 0 /\ last(data.RSI)[1] < 70 * last(data.RSI)[2]
SellCase == Deviation <= 0 /\ last(data.RSI)[1] > 30 * last(data.RSI)[2]

\* conf is min(80, 50 + (dev / sma) * 1000), where dev / sma = num / den in
\* whole numbers; with den = 0 the quotient is an infinity or NaN and the
\* minimum is 80
IsConfidence(conf, num, den) ==
    IF den = 0 THEN conf = <<80, 1>>
    ELSE IF (IF den > 0 THEN 50 * den + 1000 * num < 80 * den
                        ELSE 50 * den + 1000 * num > 80 * den)
    THEN IsNum(conf) /\ conf[1] * den = (50 * den + 1000 * num) * conf[2]
    ELSE conf = <<80, 1>>

\* C1: with at least 20 bars and SMA_20 and RSI defined at the latest bar,
\* the signal is BUY with confidence min(80, 50 + ((close - sma) / sma) * 1000)
\* exactly when close > SMA_20 and RSI < 70, SELL with confidence
\* min(80, 50 + ((sma - close) / sma) * 1000) exactly when close <= SMA_20 and
\* RSI > 30, and NEUTRAL with confidence 40 otherwise.
C1_SignalRule ==
    Decided =>
        /\ error = ""
        /\ (signal.kind = "BUY") <=> BuyCase
        /\ (signal.kind = "SELL") <=> SellCase
        /\ (signal.kind = "NEUTRAL") <=> (~BuyCase /\ ~SellCase)
        /\ BuyCase => IsConfidence(signal.confidence, Deviation, last(data.SMA_20)[1])
        /\ SellCase => IsConfidence(signal.confidence, -Deviation, last(data.SMA_20)[1])
        /\ (~BuyCase /\ ~SellCase) => signal.confidence = <<40, 1>>

\* C1 witness: the latest close equals SMA_20 and the signal is SELL
C1_Witness ==
    /\ Decided
    /\ Deviation = 0
    /\ signal.kind = "SELL"

\* C2: for None, an empty series or one of fewer than 20 bars the signal is
\* INSUFFICIENT_DATA, "Not enough data", 0, and no column has been read.
C2_InsufficientData ==
    (pc = "signalled" /\ (data.none \/ len(data) < 20)) =>
        /\ signal = Signal("INSUFFICIENT_DATA", Reason("Not enough data", <<>>), <<0, 1>>)
        /\ reads = {}
        /\ error = ""

\* C2 witness: generate_signal has run on a frame of 19 bars
C2_Witness ==
    /\ pc = "signalled"
    /\ ~data.none
    /\ len(data) = 19
    /\ signal.kind = "INSUFFICIENT_DATA"

\* C3: with at least 20 bars and SMA_20 or RSI undefined at the latest bar the
\* signal is NEUTRAL, "Calculating...", 50; and a constant close leaves RSI
\* undefined at every bar.
C3_Calculating ==
    /\ (/\ pc = "signalled"
        /\ Enriched(data)
        /\ len(data) >= 20
        /\ (isna(last(data.SMA_20)) \/ isna(last(data.RSI))))
       => (/\ signal = Signal("NEUTRAL", Reason("Calculating...", <<>>), <<50, 1>>)
           /\ error = "")
    /\ (pc = "signalled" /\ Enriched(data) /\ Constant(data.Close))
       => (/\ \A i \in 1 .. len(data) : isna(data.RSI[i])
           /\ signal.reason.text = "Calculating...")

\* C3 witness: 30 bars of constant close, signalled as "Calculating..."
C3_Witness ==
    /\ pc = "signalled"
    /\ Enriched(data)
    /\ len(data) = 30
    /\ Constant(data.Close)
    /\ signal.reason.text = "Calculating..."

\* C4: every confidence returned lies in [0, 100]: in [0, 80] for BUY and SELL,
\* 40 or 50 for NEUTRAL, 0 for INSUFFICIENT_DATA.
C4_ConfidenceRange ==
    pc = "signalled" =>
        /\ IsNum(signal.confidence)
        /\ signal.confidence[1] >= 0
        /\ signal.confidence[1] <= 100 * signal.confidence[2]
        /\ signal.kind \in {"BUY", "SELL"} =>
               signal.confidence[1] <= 80 * signal.confidence[2]
        /\ signal.kind = "NEUTRAL" => signal.confidence \in {<<40, 1>>, <<50, 1>>}
        /\ signal.kind = "INSUFFICIENT_DATA" => signal.confidence = <<0, 1>>

\* C5: generate_signal is total: it never raises, and it returns one triple
\* whose kind is BUY, SELL, NEUTRAL or INSUFFICIENT_DATA, SMA_20 = 0 included.
C5_Total ==
    pc = "signalled" =>
        /\ error = ""
        /\ signal.kind \in {"BUY", "SELL", "NEUTRAL", "INSUFFICIENT_DATA"}
        /\ signal.reason.text # ""
        /\ IsNum(signal.confidence)

\* C5 witness: a BUY or SELL was returned although SMA_20 is zero
C5_Witness ==
    /\ Decided
    /\ last(data.SMA_20)[1] = 0
    /\ signal.kind \in {"BUY", "SELL"}
    /\ error = ""

\* col is the moving average of closes over windows of w bars
IsMovingAverage(col, closes, w) ==
    /\ Len(col) = Len(closes)
    /\ \A i \in 1 .. Len(closes) :
           IF i < w THEN isna(col[i])
           ELSE /\ IsNum(col[i])
                /\ col[i][1] * w = SumCloses(closes, i - w + 1, i) * col[i][2]

\* C6: for windows 20 and 50 the moving average is as long as the series,
\* undefined before bar w (index w - 1 from 0) and from there on the mean of
\* the w closes ending at the bar.
C6_MovingAverage ==
    /\ pc = "averaged" => IsMovingAverage(sma.values, series.Close, sma.window)
    /\ (pc = "calculated" /\ Enriched(series)) =>
           /\ IsMovingAverage(series.SMA_20, series.Close, 20)
           /\ IsMovingAverage(series.SMA_50, series.Close, 50)

\* C6 witness: a 50-bar average over more than 50 bars, defined at the end
C6_Witness ==
    /\ pc = "averaged"
    /\ sma.window = 50
    /\ len(series) > 50
    /\ ~isna(last(sma.values))

\* C7: every defined RSI value lies in [0, 100], and it is 100 exactly when
\* the 14-bar average loss is 0 and the average gain is positive.
C7_RsiRange ==
    (pc = "calculated" /\ Enriched(series)) =>
        \A i \in 1 .. len(series) :
            ~isna(series.RSI[i]) =>
                /\ IsNum(series.RSI[i])
                /\ series.RSI[i][1] >= 0
                /\ series.RSI[i][1] <= 100 * series.RSI[i][2]
                /\ (series.RSI[i][1] = 100 * series.RSI[i][2]) <=>
                       (/\ i >= 14
                        /\ LossSum(series.Close, i, 14) = 0
                        /\ GainSum(series.Close, i, 14) > 0)

\* C7 witness: an RSI of 100 and an RSI strictly inside (0, 100) in one frame
C7_Witness ==
    /\ pc = "calculated"
    /\ Enriched(series)
    /\ \E i, j \in 1 .. len(series) :
           /\ IsNum(series.RSI[i])
           /\ series.RSI[i][1] = 100 * series.RSI[i][2]
           /\ IsNum(series.RSI[j])
           /\ series.RSI[j][1] > 0
           /\ series.RSI[j][1] < 100 * series.RSI[j][2]

\* C8: RSI is undefined at every index below 14 (from 0), that is at each of
\* the first 14 bars.
C8_RsiNeedsFifteenBars ==
    Enriched(series) => \A i \in 1 .. 14 : isna(series.RSI[i])

\* C9: calculate_technical_indicators leaves the frame it is given as it was:
\* the same bars and the same columns.
C9_InputUntouched ==
    pc = "calculated" => series = given

\* C10: a strictly increasing series of at least 20 bars has RSI 100 at the
\* latest bar and the signal NEUTRAL, "Mixed signals", 40; a strictly
\* decreasing one has RSI 0 and the same signal.
C10_Monotone ==
    (pc = "signalled" /\ Enriched(data) /\ len(data) >= 20) =>
        /\ StrictlyIncreasing(data.Close) =>
               /\ last(data.RSI)[1] = 100 * last(data.RSI)[2]
               /\ IsNum(last(data.RSI))
               /\ signal.kind = "NEUTRAL"
               /\ signal.reason.text = "Mixed signals, RSI: "
               /\ signal.confidence = <<40, 1>>
        /\ StrictlyDecreasing(data.Close) =>
               /\ last(data.RSI)[1] = 0
               /\ IsNum(last(data.RSI))
               /\ signal.kind = "NEUTRAL"
               /\ signal.reason.text = "Mixed signals, RSI: "
               /\ signal.confidence = <<40, 1>>

\* C10 witness: a strictly increasing series with steps of different sizes
C10_Witness ==
    /\ pc = "signalled"
    /\ Enriched(data)
    /\ len(data) >= 20
    /\ StrictlyIncreasing(data.Close)
    /\ \E j \in 2 .. len(data) : data.Close[j] - data.Close[j - 1] >= 2
    /\ signal.kind = "NEUTRAL"

====
